---------------------------- MODULE Spec2Model ----------------------------
(***************************************************************************)
(* Dominator / post-dominator analysis (DominatorAnalysis.cpp) and the     *)
(* symbolic state of the abstract execution core (SymState.cpp).           *)
(*                                                                         *)
(* A basic block is a number in Blocks; the null pointer, which the        *)
(* post-dominator computation uses as the virtual exit block, is Null.     *)
(* A CFG is the pair of ordered successor / predecessor lists the code     *)
(* reads through getSuccessors() / getPredecessors().  A DominatorMap      *)
(* (Map<const SVFBasicBlock*, BBSet>) is a function whose domain is the    *)
(* key set of the map.                                                     *)
(***************************************************************************)
EXTENDS Integers, Sequences, FiniteSets, TLC

\* ------------------------------------------------------------------ bounds
\* basic blocks of the function; block 1 is the entry block
NumBlocks == 3
\* edges of the CFG
MaxEdges == 5
\* changes of the CFG after an analysis
MaxEdits == 1
\* blocks of the two maps handed to differentialTesting
DTBlocks == 2
\* abstract execution states handed to the SymState constructor
NumExeStates == 3

Blocks == 1..NumBlocks
Null == 0

VARIABLES
    succs,        \* succs[b]: the ordered successor list of block b
    preds,        \* preds[b]: the ordered predecessor list of block b
    domMap,       \* func->svfLoopAndDom->getDomTreeMap()
    pdomMap,      \* func->svfLoopAndDom->getPostDomTreeMap()
    domBy,        \* which dominator algorithms have populated domMap
    ipdomOf,      \* IPdoms at the end of the last computePostDominators, by block
    analyzed,     \* analyze() has returned and the CFG is unchanged since
    edits,        \* number of CFG edits made by the IR builder
    dtLlvm,       \* differentialTesting: first argument (llvmMap)
    dtSvf,        \* differentialTesting: second argument (svfMap)
    dtOutcome,    \* "idle" | "returned" | "aborted"
    symArgs,      \* the arguments of the last SymState constructor call
    symState,     \* the last constructed SymState, or NoSym
    tsQuery,      \* the last TypeStateParser query
    tsAnswer,     \* and its answer
    loopFn,       \* the function whose fixed-point loop is followed step by step
    loopPc,       \* the position of that function's control
    loopOrder,    \* its locals revPostOrder
    loopReachable, \*           reachable
    loopIDoms,    \*            IDoms (IPdoms in computePostDominators)
    loopChange,   \*            change
    loopI,        \*            i
    loopNbr,      \*            the position of the inner range-for loop
    loopNewIdom,  \*            new_idom (new_ipdom)
    loopB1,       \*            B1
    loopB2        \*            B2

cfgVars == <<succs, preds>>
domVars == <<domMap, pdomMap, domBy, ipdomOf, analyzed, edits>>
dtVars == <<dtLlvm, dtSvf, dtOutcome>>
symVars == <<symArgs, symState, tsQuery, tsAnswer>>
loopVars == <<loopFn, loopPc, loopOrder, loopReachable, loopIDoms, loopChange,
              loopI, loopNbr, loopNewIdom, loopB1, loopB2>>
vars == <<succs, preds, domMap, pdomMap, domBy, ipdomOf,
          analyzed, edits, dtLlvm, dtSvf, dtOutcome, symArgs, symState, tsQuery,
          tsAnswer, loopFn, loopPc, loopOrder, loopReachable, loopIDoms,
          loopChange, loopI, loopNbr, loopNewIdom, loopB1, loopB2>>

\* ------------------------------------------------------------ map helpers
EmptyMap == [k \in {} |-> {}]

\* m[k].insert(v): operator[] creates the key with an empty set when absent
MapInsert(m, k, v) ==
    [x \in (DOMAIN m) \cup {k} |->
        IF x = k THEN (IF k \in DOMAIN m THEN m[k] ELSE {}) \cup {v} ELSE m[x]]

Reverse(s) == [i \in 1..Len(s) |-> s[Len(s) + 1 - i]]

SeqToSet(s) == {s[i] : i \in 1..Len(s)}

\* bbToIdx[bb]: the position of block bb in the reverse post order, 0-based
\* as in the code; operator[] of the map yields 0 for a block it does not hold
bbToIdx(revPostOrder, bb) ==
    IF bb \in SeqToSet(revPostOrder)
    THEN (CHOOSE i \in 1..Len(revPostOrder) : revPostOrder[i] = bb) - 1
    ELSE 0

\* ------------------------------------------------- reverse post order (DFS)
RECURSIVE DFSUtil(_, _, _), DFSVisit(_, _, _, _)
\* st = [reachable, post]: the two captured containers of the lambda
DFSUtil(adj, v, st) ==
    LET st1 == DFSVisit(adj, v, 1, [st EXCEPT !.reachable = @ \cup {v}])
    IN  [st1 EXCEPT !.post = Append(@, v)]

DFSVisit(adj, v, k, st) ==
    IF k > Len(adj[v]) THEN st
    ELSE DFSVisit(adj, v, k + 1,
                  IF adj[v][k] \in st.reachable THEN st
                  ELSE DFSUtil(adj, adj[v][k], st))

entryBB == 1

\* getReversePostOrder of computeDominators: [reachable, revPostOrder]
getReversePostOrder(sc) ==
    LET st == DFSUtil(sc, entryBB, [reachable |-> {}, post |-> <<>>])
    IN  [reachable |-> st.reachable, revPostOrder |-> Reverse(st.post)]


\* ------------------------------------------------------ computeDominators
\* result of an intersect walk that never leaves its while loop
Hang == -2

\* the "insert function": the nested while loops over B1 and B2.  A walk
\* that sits on a self-mapped slot while it is still the larger candidate
\* never ends.
RECURSIVE intersect(_, _, _)
intersect(IDoms, B1, B2) ==
    IF B1 = B2 THEN B1
    ELSE IF B1 > B2
         THEN IF IDoms[B1] = B1 THEN Hang ELSE intersect(IDoms, IDoms[B1], B2)
         ELSE IF IDoms[B2] = B2 THEN Hang ELSE intersect(IDoms, B1, IDoms[B2])

\* mutant of domNewIdom: the candidate is the last assigned predecessor,
\* the intersect walk is forgotten
RECURSIVE domNewIdom_NoIntersect(_, _, _, _, _, _)
domNewIdom_NoIntersect(IDoms, revPostOrder, reachable, plist, k, new_idom) ==
    IF k > Len(plist) THEN new_idom
    ELSE IF plist[k] \notin reachable
            \/ IDoms[bbToIdx(revPostOrder, plist[k])] = -1
         THEN domNewIdom_NoIntersect(IDoms, revPostOrder, reachable, plist,
                                     k + 1, new_idom)
         ELSE domNewIdom_NoIntersect(IDoms, revPostOrder, reachable, plist,
                                     k + 1, bbToIdx(revPostOrder, plist[k]))

\* the loop over the predecessors of one block, from the k-th on
RECURSIVE domNewIdom(_, _, _, _, _, _)
domNewIdom(IDoms, revPostOrder, reachable, plist, k, new_idom) ==
    IF new_idom = Hang \/ k > Len(plist) THEN new_idom
    ELSE IF plist[k] \notin reachable
         THEN domNewIdom(IDoms, revPostOrder, reachable, plist, k + 1, new_idom)
    ELSE LET pred == bbToIdx(revPostOrder, plist[k]) IN
         IF IDoms[pred] = -1
         THEN domNewIdom(IDoms, revPostOrder, reachable, plist, k + 1, new_idom)
         ELSE IF new_idom = -1
         THEN domNewIdom(IDoms, revPostOrder, reachable, plist, k + 1, pred)
         ELSE domNewIdom(IDoms, revPostOrder, reachable, plist, k + 1,
                         intersect(IDoms, new_idom, pred))

\* one execution of the for loop over i, from index i on;
\* st = [IDoms, change, hang]
RECURSIVE domPass(_, _, _, _, _)
domPass(pr, revPostOrder, reachable, i, st) ==
    IF st.hang \/ i >= Len(revPostOrder) THEN st
    ELSE IF i = bbToIdx(revPostOrder, entryBB)
         THEN domPass(pr, revPostOrder, reachable, i + 1, st)
    ELSE LET new_idom == domNewIdom(st.IDoms, revPostOrder, reachable,
                                    pr[revPostOrder[i + 1]], 1, -1) IN
         IF new_idom = Hang THEN [st EXCEPT !.hang = TRUE]
         ELSE IF st.IDoms[i] # new_idom
         THEN domPass(pr, revPostOrder, reachable, i + 1,
                      [st EXCEPT !.IDoms[i] = new_idom, !.change = TRUE])
         ELSE domPass(pr, revPostOrder, reachable, i + 1, st)

\* while (change): repeat the pass until no slot changes
RECURSIVE domLoop(_, _, _, _)
domLoop(pr, revPostOrder, reachable, IDoms) ==
    LET st == domPass(pr, revPostOrder, reachable, 0,
                      [IDoms |-> IDoms, change |-> FALSE, hang |-> FALSE])
    IN  IF st.hang \/ ~st.change THEN st
        ELSE domLoop(pr, revPostOrder, reachable, st.IDoms)

\* vector<int> IDoms(n, -1); IDoms[root] = root
domInitIDoms(revPostOrder) ==
    [i \in 0..(Len(revPostOrder) - 1) |->
        IF i = bbToIdx(revPostOrder, entryBB) THEN i ELSE -1]

\* mutant of domPopulate: the child is taken from the function's block list
\* (block i + 1) instead of the reverse post order
RECURSIVE domPopulate_BlockList(_, _, _, _)
domPopulate_BlockList(IDoms, revPostOrder, i, dtBBsMap) ==
    IF i >= Len(revPostOrder) THEN dtBBsMap
    ELSE IF IDoms[i] # -1 /\ i # IDoms[i]
         THEN domPopulate_BlockList(IDoms, revPostOrder, i + 1,
                  MapInsert(dtBBsMap, revPostOrder[IDoms[i] + 1], i + 1))
         ELSE domPopulate_BlockList(IDoms, revPostOrder, i + 1, dtBBsMap)

\* populate the dominator tree map from slot i on
RECURSIVE domPopulate(_, _, _, _)
domPopulate(IDoms, revPostOrder, i, dtBBsMap) ==
    IF i >= Len(revPostOrder) THEN dtBBsMap
    ELSE IF IDoms[i] # -1 /\ i # IDoms[i]
         THEN domPopulate(IDoms, revPostOrder, i + 1,
                          MapInsert(dtBBsMap, revPostOrder[IDoms[i] + 1],
                                    revPostOrder[i + 1]))
         ELSE domPopulate(IDoms, revPostOrder, i + 1, dtBBsMap)

\* computeDominators(): whether it returns, and the dominator map it leaves,
\* given the map dtBBsMap it found
computeDominatorsRun(sc, pr, dtBBsMap) ==
    LET o == getReversePostOrder(sc)
        fx == domLoop(pr, o.revPostOrder, o.reachable,
                      domInitIDoms(o.revPostOrder))
    IN  [hang |-> fx.hang,
         map |-> IF fx.hang THEN dtBBsMap
                 ELSE domPopulate(fx.IDoms, o.revPostOrder, 0, dtBBsMap)]

\* ---------------------------------------------- computeDominators_classic
\* the loop over the predecessors of one block: the intersection of the
\* dominator sets of its reachable predecessors; st = [newDom, firstPred]
RECURSIVE classicNewDom(_, _, _, _, _, _)
classicNewDom(dominators, revPostOrder, reachable, plist, k, st) ==
    IF k > Len(plist) THEN st.newDom
    ELSE IF plist[k] \notin reachable
         THEN classicNewDom(dominators, revPostOrder, reachable, plist, k + 1, st)
    ELSE LET pred == bbToIdx(revPostOrder, plist[k]) IN
         IF st.firstPred
         THEN classicNewDom(dominators, revPostOrder, reachable, plist, k + 1,
                            [newDom |-> dominators[pred], firstPred |-> FALSE])
         ELSE classicNewDom(dominators, revPostOrder, reachable, plist, k + 1,
                            [st EXCEPT !.newDom = @ \cap dominators[pred]])

\* one execution of the for loop over i; st = [dominators, change]
RECURSIVE classicPass(_, _, _, _, _)
classicPass(pr, revPostOrder, reachable, i, st) ==
    IF i >= Len(revPostOrder) THEN st
    ELSE IF i = bbToIdx(revPostOrder, entryBB)
         THEN classicPass(pr, revPostOrder, reachable, i + 1, st)
    ELSE LET newDom == classicNewDom(st.dominators, revPostOrder, reachable,
                                     pr[revPostOrder[i + 1]], 1,
                                     [newDom |-> {}, firstPred |-> TRUE])
                       \cup {i} IN
         IF newDom # st.dominators[i]
         THEN classicPass(pr, revPostOrder, reachable, i + 1,
                          [st EXCEPT !.dominators[i] = newDom, !.change = TRUE])
         ELSE classicPass(pr, revPostOrder, reachable, i + 1, st)

RECURSIVE classicLoop(_, _, _, _)
classicLoop(pr, revPostOrder, reachable, dominators) ==
    LET st == classicPass(pr, revPostOrder, reachable, 0,
                          [dominators |-> dominators, change |-> FALSE])
    IN  IF st.change THEN classicLoop(pr, revPostOrder, reachable, st.dominators)
        ELSE st.dominators

\* the root's set is itself, every other set is the universe of indices
classicInitDominators(revPostOrder) ==
    [i \in 0..(Len(revPostOrder) - 1) |->
        IF i = bbToIdx(revPostOrder, entryBB) THEN {i}
        ELSE 0..(Len(revPostOrder) - 1)]

\* mutant of classicPickIDom: the comparison of the set sizes is reversed,
\* which picks the farthest dominator
RECURSIVE classicPickIDom_Farthest(_, _, _, _)
classicPickIDom_Farthest(dominators, u, rest, idom) ==
    IF rest = {} THEN idom
    ELSE LET dom == CHOOSE d \in rest : \A e \in rest : d <= e IN
         IF dom # u /\ (idom = -1 \/ Cardinality(dominators[dom]) <
                                       Cardinality(dominators[idom]))
         THEN classicPickIDom_Farthest(dominators, u, rest \ {dom}, dom)
         ELSE classicPickIDom_Farthest(dominators, u, rest \ {dom}, idom)

\* the loop "for (int dom : dominators[u])" in ascending order over the
\* members not yet visited (rest); idom is IDoms[u] so far
RECURSIVE classicPickIDom(_, _, _, _)
classicPickIDom(dominators, u, rest, idom) ==
    IF rest = {} THEN idom
    ELSE LET dom == CHOOSE d \in rest : \A e \in rest : d <= e IN
         IF dom # u /\ (idom = -1 \/ Cardinality(dominators[dom]) >
                                       Cardinality(dominators[idom]))
         THEN classicPickIDom(dominators, u, rest \ {dom}, dom)
         ELSE classicPickIDom(dominators, u, rest \ {dom}, idom)

classicIDoms(dominators, revPostOrder) ==
    [u \in 0..(Len(revPostOrder) - 1) |->
        IF u = bbToIdx(revPostOrder, entryBB) THEN -1
        ELSE classicPickIDom(dominators, u, dominators[u], -1)]

RECURSIVE classicPopulate(_, _, _, _)
classicPopulate(IDoms, revPostOrder, i, dtBBsMap) ==
    IF i >= Len(revPostOrder) THEN dtBBsMap
    ELSE IF IDoms[i] # -1
         THEN classicPopulate(IDoms, revPostOrder, i + 1,
                              MapInsert(dtBBsMap, revPostOrder[IDoms[i] + 1],
                                        revPostOrder[i + 1]))
         ELSE classicPopulate(IDoms, revPostOrder, i + 1, dtBBsMap)

\* computeDominators_classic(): the dominator map it leaves
computeDominators_classicMap(sc, pr, dtBBsMap) ==
    LET o == getReversePostOrder(sc)
        dominators == classicLoop(pr, o.revPostOrder, o.reachable,
                                  classicInitDominators(o.revPostOrder))
    IN  classicPopulate(classicIDoms(dominators, o.revPostOrder),
                        o.revPostOrder, 0, dtBBsMap)

\* -------------------------------------------------- computePostDominators
\* blocks with no successors
exitBBs(sc) == {bb \in DOMAIN sc : Len(sc[bb]) = 0}

\* the order in which the loop over the unordered set exitBBs meets its
\* members: by block number (the blocks are numbered in every possible way)
RECURSIVE SetToSeq(_)
SetToSeq(S) ==
    IF S = {} THEN <<>>
    ELSE LET x == CHOOSE d \in S : \A e \in S : d <= e
         IN  <<x>> \o SetToSeq(S \ {x})

\* for (bb : exitBBs) DFSUtil(bb): the DFS follows predecessors
RECURSIVE postDFSAll(_, _, _, _)
postDFSAll(pr, exits, k, st) ==
    IF k > Len(exits) THEN st
    ELSE postDFSAll(pr, exits, k + 1, DFSUtil(pr, exits[k], st))

\* getReversePostOrder of computePostDominators, with the virtual exit
\* block put at the front of the order and marked reachable
postReversePostOrder(sc, pr) ==
    LET st == postDFSAll(pr, SetToSeq(exitBBs(sc)), 1,
                         [reachable |-> {}, post |-> <<>>])
    IN  [reachable |-> st.reachable \cup {Null},
         revPostOrder |-> <<Null>> \o Reverse(st.post)]

\* mutant of postSuccessors: an exit block is not given the virtual exit
postSuccessors_NoVirtualExit(sc, bb) == sc[bb]

\* the successors the loop walks: the virtual exit for an exit block
postSuccessors(sc, bb) == IF Len(sc[bb]) = 0 THEN <<Null>> ELSE sc[bb]

RECURSIVE postIntersect(_, _, _)
postIntersect(IPdoms, B1, B2) ==
    IF B1 = B2 THEN B1
    ELSE IF B1 > B2
         THEN IF IPdoms[B1] = B1 THEN Hang
              ELSE postIntersect(IPdoms, IPdoms[B1], B2)
         ELSE IF IPdoms[B2] = B2 THEN Hang
              ELSE postIntersect(IPdoms, B1, IPdoms[B2])

RECURSIVE postNewIpdom(_, _, _, _, _, _)
postNewIpdom(IPdoms, revPostOrder, reachable, slist, k, new_ipdom) ==
    IF new_ipdom = Hang \/ k > Len(slist) THEN new_ipdom
    ELSE IF slist[k] \notin reachable
         THEN postNewIpdom(IPdoms, revPostOrder, reachable, slist, k + 1, new_ipdom)
    ELSE LET succ == bbToIdx(revPostOrder, slist[k]) IN
         IF IPdoms[succ] = -1
         THEN postNewIpdom(IPdoms, revPostOrder, reachable, slist, k + 1, new_ipdom)
         ELSE IF new_ipdom = -1
         THEN postNewIpdom(IPdoms, revPostOrder, reachable, slist, k + 1, succ)
         ELSE postNewIpdom(IPdoms, revPostOrder, reachable, slist, k + 1,
                           postIntersect(IPdoms, new_ipdom, succ))

\* one execution of the for loop over i; st = [IPdoms, change, hang]
RECURSIVE postPass(_, _, _, _, _)
postPass(sc, revPostOrder, reachable, i, st) ==
    IF st.hang \/ i >= Len(revPostOrder) THEN st
    ELSE IF i = 0 THEN postPass(sc, revPostOrder, reachable, i + 1, st)
    ELSE LET new_ipdom == postNewIpdom(st.IPdoms, revPostOrder, reachable,
                              postSuccessors(sc, revPostOrder[i + 1]), 1, -1) IN
         IF new_ipdom = Hang THEN [st EXCEPT !.hang = TRUE]
         ELSE IF st.IPdoms[i] # new_ipdom
         THEN postPass(sc, revPostOrder, reachable, i + 1,
                       [st EXCEPT !.IPdoms[i] = new_ipdom, !.change = TRUE])
         ELSE postPass(sc, revPostOrder, reachable, i + 1, st)

RECURSIVE postLoop(_, _, _, _)
postLoop(sc, revPostOrder, reachable, IPdoms) ==
    LET st == postPass(sc, revPostOrder, reachable, 0,
                       [IPdoms |-> IPdoms, change |-> FALSE, hang |-> FALSE])
    IN  IF st.hang \/ ~st.change THEN st
        ELSE postLoop(sc, revPostOrder, reachable, st.IPdoms)

\* vector<int> IPdoms(n, -1); IPdoms[root] = root, root = 0
postInitIPdoms(revPostOrder) ==
    [i \in 0..(Len(revPostOrder) - 1) |-> IF i = 0 THEN 0 ELSE -1]

\* mutant of postKeep: blocks whose slot is the virtual exit are kept
postKeep_NoRootCheck(IPdoms, i) == IPdoms[i] # -1 /\ i # IPdoms[i]

\* the guard of the loop that populates the post-dominator tree map
postKeep(IPdoms, i) == IPdoms[i] # 0 /\ IPdoms[i] # -1 /\ i # IPdoms[i]

\* mutant of postPopulate: parent and child are swapped in the insertion
RECURSIVE postPopulate_Swapped(_, _, _, _)
postPopulate_Swapped(IPdoms, revPostOrder, i, pdtBBsMap) ==
    IF i >= Len(revPostOrder) THEN pdtBBsMap
    ELSE IF postKeep(IPdoms, i)
         THEN postPopulate_Swapped(IPdoms, revPostOrder, i + 1,
                  MapInsert(pdtBBsMap, revPostOrder[i + 1],
                            revPostOrder[IPdoms[i] + 1]))
         ELSE postPopulate_Swapped(IPdoms, revPostOrder, i + 1, pdtBBsMap)

RECURSIVE postPopulate(_, _, _, _)
postPopulate(IPdoms, revPostOrder, i, pdtBBsMap) ==
    IF i >= Len(revPostOrder) THEN pdtBBsMap
    ELSE IF postKeep(IPdoms, i)
         THEN postPopulate(IPdoms, revPostOrder, i + 1,
                           MapInsert(pdtBBsMap, revPostOrder[IPdoms[i] + 1],
                                     revPostOrder[i + 1]))
         ELSE postPopulate(IPdoms, revPostOrder, i + 1, pdtBBsMap)

\* IPdoms at the end of the loop, by block: the immediate post-dominator
\* slot of every real block of the reverse post order (a block, Null for
\* the virtual exit, -1 for an unresolved slot)
postIPdomsByBlock(IPdoms, revPostOrder) ==
    [bb \in SeqToSet(revPostOrder) \ {Null} |->
        LET s == IPdoms[bbToIdx(revPostOrder, bb)]
        IN  IF s = -1 THEN -1 ELSE revPostOrder[s + 1]]

\* computePostDominators(): whether it returns, the post-dominator map it
\* leaves given the map pdtBBsMap it found, and its final IPdoms by block
computePostDominatorsRun(sc, pr, pdtBBsMap) ==
    LET o == postReversePostOrder(sc, pr)
        fx == postLoop(sc, o.revPostOrder, o.reachable,
                       postInitIPdoms(o.revPostOrder))
    IN  [hang |-> fx.hang,
         map |-> IF fx.hang THEN pdtBBsMap
                 ELSE postPopulate(fx.IPdoms, o.revPostOrder, 1, pdtBBsMap),
         ipdom |-> IF fx.hang THEN EmptyMap
                   ELSE postIPdomsByBlock(fx.IPdoms, o.revPostOrder)]

\* ---------------------------------------------------- differentialTesting
\* mutant of differentialTestingAborts: the size check is left out
differentialTestingAborts_NoSizeCheck(llvmMap, svfMap) ==
    \E dom \in DOMAIN llvmMap :
        \/ dom \notin DOMAIN svfMap
        \/ svfMap[dom] # llvmMap[dom]

\* whether one of the three ABORT_IFNOT conditions of differentialTesting
\* fails: "different size", "<dom> not found in svfMap", "<dom>'s children
\* are different"
differentialTestingAborts(llvmMap, svfMap) ==
    \/ Cardinality(DOMAIN llvmMap) # Cardinality(DOMAIN svfMap)
    \/ \E dom \in DOMAIN llvmMap :
           \/ dom \notin DOMAIN svfMap
           \/ svfMap[dom] # llvmMap[dom]

\* the dominator maps over the blocks 1..DTBlocks
DTMaps ==
    UNION {[K -> SUBSET (1..DTBlocks)] : K \in SUBSET (1..DTBlocks)}

\* ------------------------------------------ TypeStateParser and SymState
\* enum class TypeState
TypeState ==
    {"TypeState::Uinit", "TypeState::Error", "TypeState::Allocated",
     "TypeState::Freed", "TypeState::Opened"}

_typeMap ==
    ("$uninit" :> "TypeState::Uinit") @@
    ("$error" :> "TypeState::Error") @@
    ("Allocated" :> "TypeState::Allocated") @@
    ("Freed" :> "TypeState::Freed") @@
    ("Opened" :> "TypeState::Opened")

\* mutant of _revTypeMap: the labels of Allocated and Freed are exchanged
_revTypeMap_Exchanged ==
    ("TypeState::Uinit" :> "$uninit") @@
    ("TypeState::Error" :> "$error") @@
    ("TypeState::Allocated" :> "Freed") @@
    ("TypeState::Freed" :> "Allocated") @@
    ("TypeState::Opened" :> "Opened")

_revTypeMap ==
    ("TypeState::Uinit" :> "$uninit") @@
    ("TypeState::Error" :> "$error") @@
    ("TypeState::Allocated" :> "Allocated") @@
    ("TypeState::Freed" :> "Freed") @@
    ("TypeState::Opened" :> "Opened")

\* label -> state; an unregistered label fails
labelToState(label) ==
    IF label \in DOMAIN _typeMap THEN _typeMap[label] ELSE "UnknownLabelError"

\* state -> label
stateToLabel(state) ==
    IF state \in DOMAIN _revTypeMap THEN _revTypeMap[state] ELSE "<no label>"

\* the labels asked for: the registered ones and two that are not
QueryLabels == DOMAIN _typeMap \cup {"bogus", "uninit"}

\* the abstract execution states, opaque values
ExeStates == 1..NumExeStates

\* Z3Expr::getContext().bool_val(b)
bool_val(b) == IF b THEN "true" ELSE "false"

\* mutant of SymStateCtor: the branch condition starts as false for a state
\* constructed in the Error typestate
SymStateCtor_ErrorUnsat(es, ts) ==
    [exeState |-> es, typeState |-> ts,
     branchCondition |-> bool_val(ts # "TypeState::Error")]

\* SymState::SymState(ConsExeState es, TypeState ts)
SymStateCtor(es, ts) ==
    [exeState |-> es, typeState |-> ts, branchCondition |-> bool_val(TRUE)]

\* ----------------------------------------------------------- state machine
NoSym == [none |-> TRUE]

RECURSIVE NumEdgesFrom(_, _)
NumEdgesFrom(sc, b) ==
    IF b > NumBlocks THEN 0 ELSE Len(sc[b]) + NumEdgesFrom(sc, b + 1)
NumEdges(sc) == NumEdgesFrom(sc, 1)

HasEdge(sc, a, b) == b \in SeqToSet(sc[a])

\* no fixed-point loop is being followed
LoopIdle ==
    /\ loopFn = "none"
    /\ loopPc = "idle"
    /\ loopOrder = <<>>
    /\ loopReachable = {}
    /\ loopIDoms = <<>>
    /\ loopChange = FALSE
    /\ loopI = 0
    /\ loopNbr = 0
    /\ loopNewIdom = -1
    /\ loopB1 = -1
    /\ loopB2 = -1

Init ==
    /\ succs = [b \in Blocks |-> <<>>]
    /\ preds = [b \in Blocks |-> <<>>]
    /\ domMap = EmptyMap
    /\ pdomMap = EmptyMap
    /\ domBy = {}
    /\ ipdomOf = EmptyMap
    /\ analyzed = FALSE
    /\ edits = 0
    /\ dtLlvm = EmptyMap
    /\ dtSvf = EmptyMap
    /\ dtOutcome = "idle"
    /\ symArgs = <<>>
    /\ symState = NoSym
    /\ tsQuery = <<"none">>
    /\ tsAnswer = "none"
    /\ LoopIdle

\* The IR builder links block a to block b: b is appended to a's successor
\* list and a to b's predecessor list.  Two blocks are linked at most once.
AddEdge(a, b) ==
    /\ ~HasEdge(succs, a, b)
    /\ succs' = [succs EXCEPT ![a] = Append(@, b)]
    /\ preds' = [preds EXCEPT ![b] = Append(@, a)]

\* The IR builder builds the function before any analysis of it, block by
\* block and, within a block, target by target.
BuildCFG ==
    \E a, b \in Blocks :
        /\ domBy = {} /\ edits = 0 /\ loopPc = "idle"
        /\ NumEdges(succs) < MaxEdges
        /\ \A x, y \in Blocks :
               HasEdge(succs, x, y) => (x < a \/ (x = a /\ y < b))
        /\ AddEdge(a, b)
        /\ UNCHANGED <<domVars, dtVars, symVars, loopVars>>

\* analyze(): computeDominators(); computePostDominators();
analyze ==
    LET d == computeDominatorsRun(succs, preds, domMap)
        r == computePostDominatorsRun(succs, preds, pdomMap) IN
    /\ ~d.hang /\ ~r.hang
    /\ domMap' = d.map
    /\ domBy' = domBy \cup {"fast"}
    /\ pdomMap' = r.map
    /\ ipdomOf' = r.ipdom
    /\ analyzed' = TRUE
    /\ UNCHANGED <<cfgVars, edits, dtVars, symVars, loopVars>>

\* computeDominators_classic(), the retained reference algorithm, run on
\* the function's dominator map
computeDominators_classic ==
    /\ domMap' = computeDominators_classicMap(succs, preds, domMap)
    /\ domBy' = domBy \cup {"classic"}
    /\ UNCHANGED <<cfgVars, pdomMap, ipdomOf, analyzed, edits, dtVars, symVars, loopVars>>

Next ==
    \/ BuildCFG
    \/ analyze
    \/ computeDominators_classic

Spec == Init /\ [][Next]_vars

\* ------------------------------------------- the CFG changes after analysis
RemoveAt(s, x) == SelectSeq(s, LAMBDA y : y # x)

\* The IR builder changes the CFG of a function that has been analyzed: it
\* adds one edge or removes one.
EditCFG ==
    \E a, b \in Blocks :
        /\ analyzed /\ edits < MaxEdits
        /\ \/ AddEdge(a, b)
           \/ /\ HasEdge(succs, a, b)
              /\ succs' = [succs EXCEPT ![a] = RemoveAt(@, b)]
              /\ preds' = [preds EXCEPT ![b] = RemoveAt(@, a)]
        /\ analyzed' = FALSE
        /\ edits' = edits + 1
        /\ UNCHANGED <<domMap, pdomMap, domBy, ipdomOf, dtVars, symVars, loopVars>>

NextEdit ==
    \/ BuildCFG
    \/ analyze
    \/ EditCFG

SpecEdit == Init /\ [][NextEdit]_vars

\* ------------------------------------- dominance by its definition (paths)
\* successor sets of the CFG
FwdAdj(sc) == [v \in Blocks |-> SeqToSet(sc[v])]

\* the edge-reversed CFG extended with the virtual exit, which is the sole
\* successor of every block without successors
RevAdj(sc) ==
    [v \in Blocks \cup {Null} |->
        IF v = Null THEN exitBBs(sc) ELSE {a \in Blocks : HasEdge(sc, a, v)}]

\* the nodes some path from a node of R reaches without entering avoid
RECURSIVE ReachAvoiding(_, _, _)
ReachAvoiding(adj, R, avoid) ==
    LET R2 == R \cup ((UNION {adj[v] : v \in R}) \ avoid)
    IN  IF R2 = R THEN R ELSE ReachAvoiding(adj, R2, avoid)

PathReach(adj, root, avoid) ==
    IF root \in avoid THEN {} ELSE ReachAvoiding(adj, {root}, avoid)

\* d lies on every path from root to b
Dominates(adj, root, d, b) == d = b \/ b \notin PathReach(adj, root, {d})

ProperDoms(adj, root, b) ==
    {d \in DOMAIN adj : d # b /\ Dominates(adj, root, d, b)}

\* d is the immediate dominator of b: a proper dominator of b that every
\* other proper dominator of b dominates
IsIDom(adj, root, d, b) ==
    /\ d \in ProperDoms(adj, root, b)
    /\ \A e \in ProperDoms(adj, root, b) : e # d => Dominates(adj, root, e, d)

\* blocks reachable from the entry block / blocks that reach an exit block
EntryReach == PathReach(FwdAdj(succs), entryBB, {})
ExitReach == PathReach(RevAdj(succs), Null, {}) \ {Null}

\* the keys of a map whose child set holds b
ParentsIn(m, b) == {k \in DOMAIN m : b \in m[k]}
InMap(m, b) == b \in DOMAIN m \/ ParentsIn(m, b) # {}

\* the number of parent -> child edges of a map
RECURSIVE EdgeCount(_, _)
EdgeCount(m, keys) ==
    IF keys = {} THEN 0
    ELSE LET k == CHOOSE x \in keys : TRUE
         IN  Cardinality(m[k]) + EdgeCount(m, keys \ {k})

\* the nodes below b in the map read as parent -> children edges
RECURSIVE Below(_, _)
Below(m, R) ==
    LET R2 == R \cup UNION {m[k] : k \in R \cap DOMAIN m}
    IN  IF R2 = R THEN R ELSE Below(m, R2)
Acyclic(m) == \A k \in DOMAIN m : k \notin Below(m, m[k])

\* the CFG has a loop with two entries: 1 -> 2, 1 -> 3, 2 -> 3, 3 -> 2
Irreducible ==
    /\ HasEdge(succs, 1, 2) /\ HasEdge(succs, 1, 3)
    /\ HasEdge(succs, 2, 3) /\ HasEdge(succs, 3, 2)

\* ------------------------------------------------------------------ claims
\* C1: after analyze() on a function whose dominator map was empty, every
\* block reachable from the entry other than the entry is in the child set
\* of exactly one key, that key is its immediate dominator by the path
\* definition, and the entry block is in no child set.
C1_ImmediateDominators ==
    domBy = {"fast"} =>
        /\ \A b \in EntryReach \ {entryBB} :
               \E d \in DOMAIN domMap :
                   /\ ParentsIn(domMap, b) = {d}
                   /\ IsIDom(FwdAdj(succs), entryBB, d, b)
        /\ ParentsIn(domMap, entryBB) = {}

\* an irreducible CFG with a self-loop has been analyzed: both loop blocks
\* are children of the entry
C1_Witness ==
    /\ domBy = {"fast"} /\ Irreducible /\ HasEdge(succs, 2, 2)
    /\ domMap = [k \in {1} |-> {2, 3}]

\* C2: started from an empty dominator map on the same CFG, the fast
\* iterative algorithm and the classical set-intersection algorithm leave
\* the same parent -> children map.
C2_AlgorithmsAgree ==
    /\ domBy = {"fast"} =>
           domMap = computeDominators_classicMap(succs, preds, EmptyMap)
    /\ domBy = {"classic"} =>
           domMap = computeDominatorsRun(succs, preds, EmptyMap).map

\* the classical algorithm has run alone on an irreducible CFG
C2_Witness ==
    /\ domBy = {"classic"} /\ Irreducible
    /\ domMap = [k \in {1} |-> {2, 3}]

\* C3: for every block that reaches an exit block, the immediate
\* post-dominator computePostDominators computed is its immediate dominator
\* in the reversed CFG extended with the virtual exit; when it is a real
\* block p, the block is in pdomMap[p] and in no other child set.
C3_PostDominatorsMirror ==
    analyzed =>
        \A b \in ExitReach :
            /\ b \in DOMAIN ipdomOf
            /\ IsIDom(RevAdj(succs), Null, ipdomOf[b], b)
            /\ ipdomOf[b] # Null => ParentsIn(pdomMap, b) = {ipdomOf[b]}

\* the self-loop scenario Entry -> L, L -> L, L -> Exit: Entry is a child
\* of L and L a child of Exit
C3_Witness ==
    /\ analyzed
    /\ succs = [b \in Blocks |-> IF b = 1 THEN <<2>> ELSE IF b = 2 THEN <<2, 3>> ELSE <<>>]
    /\ pdomMap = [k \in {2, 3} |-> IF k = 2 THEN {1} ELSE {2}]

\* C4 as stated: the post-dominator map has one parent edge for every real
\* block that reaches an exit (|reachable| - 1 edges, the virtual exit
\* being the extra node), exit blocks included, and no cycle.
C4_AsStated ==
    analyzed =>
        /\ EdgeCount(pdomMap, DOMAIN pdomMap) = Cardinality(ExitReach \cup {Null}) - 1
        /\ \A b \in ExitReach : Cardinality(ParentsIn(pdomMap, b)) = 1
        /\ ParentsIn(pdomMap, Null) = {}
        /\ Acyclic(pdomMap)

\* the real blocks whose immediate post-dominator is the virtual exit
VirtualExitChildren == {b \in ExitReach : IsIDom(RevAdj(succs), Null, Null, b)}

\* C4 amended: the map has no cycle and holds |reachable| - 1 edges less
\* one for every real block whose immediate post-dominator is the virtual
\* exit; those blocks and the virtual exit have no parent edge, every other
\* block that reaches an exit has exactly one.
C4_TreeWithoutVirtualExitEdges ==
    analyzed =>
        /\ EdgeCount(pdomMap, DOMAIN pdomMap) =
               Cardinality(ExitReach \cup {Null}) - 1 - Cardinality(VirtualExitChildren)
        /\ \A b \in ExitReach \ VirtualExitChildren :
               Cardinality(ParentsIn(pdomMap, b)) = 1
        /\ \A b \in VirtualExitChildren \cup {Null} : ParentsIn(pdomMap, b) = {}
        /\ Acyclic(pdomMap)

\* a block with two exits below it: both exits and the block itself have
\* the virtual exit as immediate post-dominator, and the map holds one edge
C4_Witness ==
    /\ analyzed
    /\ Cardinality(VirtualExitChildren) = 2
    /\ Cardinality(ExitReach) = 3
    /\ EdgeCount(pdomMap, DOMAIN pdomMap) = 1

\* C5: after analyze() on a function whose maps were empty, a block with no
\* path from the entry is neither a key nor a child in the dominator map, a
\* block with no path to an exit block is neither in the post-dominator
\* map, and without any exit block the post-dominator map is empty.
C5_UnreachableExcluded ==
    (analyzed /\ domBy = {"fast"}) =>
        /\ \A b \in Blocks \ EntryReach : ~InMap(domMap, b)
        /\ \A b \in Blocks \ ExitReach : ~InMap(pdomMap, b)
        /\ exitBBs(succs) = {} => pdomMap = EmptyMap

\* dead code (block 3) that is a predecessor of the reachable block 2, in a
\* CFG where every block has a successor, so that no block reaches an exit
C5_Witness ==
    /\ analyzed /\ domBy = {"fast"}
    /\ exitBBs(succs) = {}
    /\ 3 \notin EntryReach /\ 2 \in EntryReach /\ HasEdge(succs, 3, 2)
    /\ domMap = [k \in {1} |-> {2}]
    /\ pdomMap = EmptyMap

\* C6 as stated: whatever the maps held before the call, after analyze()
\* both maps hold exactly the edges computed from the current CFG.
C6_RecomputesFromScratch ==
    analyzed =>
        /\ domMap = computeDominatorsRun(succs, preds, EmptyMap).map
        /\ pdomMap = computePostDominatorsRun(succs, preds, EmptyMap).map

\* C7: after computePostDominators the virtual exit is neither a key nor a
\* child of the post-dominator map, and a block whose immediate
\* post-dominator is the virtual exit is in no child set.
C7_VirtualExitNotInMap ==
    analyzed =>
        /\ ~InMap(pdomMap, Null)
        /\ \A b \in DOMAIN ipdomOf :
               ipdomOf[b] = Null => ParentsIn(pdomMap, b) = {}

\* two disjoint exit blocks E1 = 2 and E2 = 3 below the entry
C7_Witness ==
    /\ analyzed
    /\ succs = [b \in Blocks |-> IF b = 1 THEN <<2, 3>> ELSE <<>>]
    /\ ipdomOf = [b \in Blocks |-> Null]
    /\ pdomMap = EmptyMap


\* ------------------------------------------ specification: differentialTesting
InitDT ==
    /\ succs = [b \in Blocks |-> <<>>]
    /\ preds = [b \in Blocks |-> <<>>]
    /\ domMap = EmptyMap
    /\ pdomMap = EmptyMap
    /\ domBy = {}
    /\ ipdomOf = EmptyMap
    /\ analyzed = FALSE
    /\ edits = 0
    /\ dtLlvm \in DTMaps
    /\ dtSvf \in DTMaps
    /\ dtOutcome = "idle"
    /\ symArgs = <<>>
    /\ symState = NoSym
    /\ tsQuery = <<"none">>
    /\ tsAnswer = "none"
    /\ LoopIdle

\* differentialTesting(llvmMap, svfMap) on the two maps handed to it
differentialTesting ==
    /\ dtOutcome = "idle"
    /\ dtOutcome' = IF differentialTestingAborts(dtLlvm, dtSvf)
                    THEN "aborted" ELSE "returned"
    /\ UNCHANGED <<cfgVars, domVars, dtLlvm, dtSvf, symVars, loopVars>>

NextDT == differentialTesting

SpecDT == InitDT /\ [][NextDT]_vars

\* --------------------------- specification: TypeStateParser and SymState
LabelToState ==
    \E label \in QueryLabels :
        /\ tsQuery' = <<"labelToState", label>>
        /\ tsAnswer' = labelToState(label)
        /\ UNCHANGED <<cfgVars, domVars, dtVars, symArgs, symState, loopVars>>

StateToLabel ==
    \E state \in TypeState :
        /\ tsQuery' = <<"stateToLabel", state>>
        /\ tsAnswer' = stateToLabel(state)
        /\ UNCHANGED <<cfgVars, domVars, dtVars, symArgs, symState, loopVars>>

NewSymState ==
    \E es \in ExeStates, ts \in TypeState :
        /\ symArgs' = <<es, ts>>
        /\ symState' = SymStateCtor(es, ts)
        /\ UNCHANGED <<cfgVars, domVars, dtVars, tsQuery, tsAnswer, loopVars>>

NextSym ==
    \/ LabelToState
    \/ StateToLabel
    \/ NewSymState

SpecSym == Init /\ [][NextSym]_vars

\* C8: differentialTesting aborts exactly when the two maps are not
\* structurally equal, that is when they differ in their key sets or in the
\* child set of some key.
C8_AbortsIffMapsDiffer ==
    dtOutcome # "idle" =>
        (dtOutcome = "returned" <=>
            /\ DOMAIN dtLlvm = DOMAIN dtSvf
            /\ \A k \in DOMAIN dtLlvm : dtLlvm[k] = dtSvf[k])

\* an abort on two maps of the same size where the second holds a key the
\* first lacks
C8_Witness ==
    /\ dtOutcome = "aborted"
    /\ Cardinality(DOMAIN dtLlvm) = Cardinality(DOMAIN dtSvf)
    /\ \E k \in DOMAIN dtSvf : k \notin DOMAIN dtLlvm

\* C9: _typeMap and _revTypeMap are mutual inverses over the declared
\* states: every state's label maps back to the state, every registered
\* label's state maps back to the label, $uninit and $error map to Uinit
\* and Error, and no two labels map to the same state.
C9_LabelBijection ==
    /\ \A t \in TypeState : labelToState(stateToLabel(t)) = t
    /\ \A l \in DOMAIN _typeMap : stateToLabel(labelToState(l)) = l
    /\ labelToState("$uninit") = "TypeState::Uinit"
    /\ labelToState("$error") = "TypeState::Error"
    /\ \A l1, l2 \in DOMAIN _typeMap : _typeMap[l1] = _typeMap[l2] => l1 = l2
    /\ tsQuery[1] = "stateToLabel" => labelToState(tsAnswer) = tsQuery[2]
    /\ (tsQuery[1] = "labelToState" /\ tsQuery[2] \in DOMAIN _typeMap) =>
           stateToLabel(tsAnswer) = tsQuery[2]

\* the label of Freed has been asked for
C9_Witness ==
    /\ tsQuery = <<"stateToLabel", "TypeState::Freed">>
    /\ tsAnswer = "Freed"

\* C10: a newly constructed SymState holds the execution state and the
\* TypeState passed to the constructor, and its branch condition is true.
C10_FreshStateCondition ==
    symState # NoSym =>
        /\ symState.branchCondition = bool_val(TRUE)
        /\ symState.exeState = symArgs[1]
        /\ symState.typeState = symArgs[2]

\* a SymState constructed in the Error typestate
C10_Witness ==
    /\ symState # NoSym
    /\ symArgs = <<2, "TypeState::Error">>
    /\ symState.branchCondition = "true"


\* ------------------- specification: the fixed-point loops, statement by statement
\* the two functions that run the loop
LoopFns == {"computeDominators", "computePostDominators"}

\* Step 1 of the function: [reachable, revPostOrder]
loopReversePostOrder(fn, sc, pr) ==
    IF fn = "computeDominators" THEN getReversePostOrder(sc)
    ELSE postReversePostOrder(sc, pr)

\* int root
loopRoot(fn, order) ==
    IF fn = "computeDominators" THEN bbToIdx(order, entryBB) ELSE 0

\* the vector IDoms / IPdoms before the while loop
loopInitIDoms(fn, order) ==
    IF fn = "computeDominators" THEN domInitIDoms(order)
    ELSE postInitIPdoms(order)

\* the list the range-for loop walks for block bb: its predecessors, or its
\* successors with the virtual exit standing in for none
loopNeighbours(fn, sc, pr, bb) ==
    IF fn = "computeDominators" THEN pr[bb] ELSE postSuccessors(sc, bb)

\* mutant of loopSkips: the test of the slot is left out
loopSkips_NoSlotTest(slots, reach, order, nb) == nb \notin reach

\* mutant of loopSkips: the test of the slot is inverted, neighbours with
\* an assigned slot are the ones passed over
loopSkips_Inverted(slots, reach, order, nb) ==
    nb \notin reach \/ slots[bbToIdx(order, nb)] # -1

\* the two "continue" tests of the range-for loop: the neighbour is not
\* reachable, or its slot is still -1
loopSkips(slots, reach, order, nb) ==
    nb \notin reach \/ slots[bbToIdx(order, nb)] = -1

\* mutant of loopSlotChanges: every evaluated slot counts as changed
loopSlotChanges_Always(slots, at, cand) == TRUE

\* if (IDoms[i] != new_idom)
loopSlotChanges(slots, at, cand) == slots[at] # cand

\* the function is entered on a function that has not been analyzed: Step 1,
\* the vector and "bool change = true"
loopEnter ==
    \E fn \in LoopFns :
        LET o == loopReversePostOrder(fn, succs, preds) IN
        /\ loopPc = "idle" /\ domBy = {} /\ ~analyzed
        /\ loopFn' = fn
        /\ loopOrder' = o.revPostOrder
        /\ loopReachable' = o.reachable
        /\ loopIDoms' = loopInitIDoms(fn, o.revPostOrder)
        /\ loopChange' = TRUE
        /\ loopPc' = "while"
        /\ UNCHANGED <<loopI, loopNbr, loopNewIdom, loopB1, loopB2>>
        /\ UNCHANGED <<cfgVars, domVars, dtVars, symVars>>

\* while (change) { change = false; for (int i = 0; ...
loopWhile ==
    /\ loopPc = "while"
    /\ IF loopChange
       THEN /\ loopChange' = FALSE
            /\ loopI' = 0
            /\ loopPc' = "for"
       ELSE /\ loopPc' = "populate"
            /\ UNCHANGED <<loopChange, loopI>>
    /\ UNCHANGED <<loopFn, loopOrder, loopReachable, loopIDoms, loopNbr,
                   loopNewIdom, loopB1, loopB2>>
    /\ UNCHANGED <<cfgVars, domVars, dtVars, symVars>>

\* i < n; if (i == root) continue; int new_idom = -1; and the range-for
\* loop is entered
loopFor ==
    /\ loopPc = "for"
    /\ IF loopI >= Len(loopOrder)
       THEN /\ loopPc' = "while"
            /\ UNCHANGED <<loopI, loopNbr, loopNewIdom>>
       ELSE IF loopI = loopRoot(loopFn, loopOrder)
       THEN /\ loopI' = loopI + 1
            /\ UNCHANGED <<loopPc, loopNbr, loopNewIdom>>
       ELSE /\ loopNewIdom' = -1
            /\ loopNbr' = 1
            /\ loopPc' = "range"
            /\ UNCHANGED loopI
    /\ UNCHANGED <<loopFn, loopOrder, loopReachable, loopIDoms, loopChange,
                   loopB1, loopB2>>
    /\ UNCHANGED <<cfgVars, domVars, dtVars, symVars>>

\* one round of the range-for loop over the predecessors (successors) of
\* revPostOrder[i], up to the declaration of B1 and B2
loopRange ==
    LET list == loopNeighbours(loopFn, succs, preds, loopOrder[loopI + 1]) IN
    /\ loopPc = "range"
    /\ IF loopNbr > Len(list)
       THEN /\ loopPc' = "update"
            /\ UNCHANGED <<loopNbr, loopNewIdom, loopB1, loopB2>>
       ELSE IF loopSkips(loopIDoms, loopReachable, loopOrder, list[loopNbr])
       THEN /\ loopNbr' = loopNbr + 1
            /\ UNCHANGED <<loopPc, loopNewIdom, loopB1, loopB2>>
       ELSE IF loopNewIdom = -1
       THEN /\ loopNewIdom' = bbToIdx(loopOrder, list[loopNbr])
            /\ loopNbr' = loopNbr + 1
            /\ UNCHANGED <<loopPc, loopB1, loopB2>>
       ELSE /\ loopB1' = loopNewIdom
            /\ loopB2' = bbToIdx(loopOrder, list[loopNbr])
            /\ loopPc' = "walk"
            /\ UNCHANGED <<loopNbr, loopNewIdom>>
    /\ UNCHANGED <<loopFn, loopOrder, loopReachable, loopIDoms, loopChange, loopI>>
    /\ UNCHANGED <<cfgVars, domVars, dtVars, symVars>>

\* one test of the "insert function": B1 == B2 ends it with new_idom = B1,
\* otherwise the larger of the two is replaced by its slot.  A read outside
\* the vector is undefined behaviour: whatever follows is the state "ub".
loopWalk ==
    /\ loopPc = "walk"
    /\ IF loopB1 = loopB2
       THEN /\ loopNewIdom' = loopB1
            /\ loopNbr' = loopNbr + 1
            /\ loopB1' = -1
            /\ loopB2' = -1
            /\ loopPc' = "range"
       ELSE IF loopB1 > loopB2
       THEN IF loopB1 \in DOMAIN loopIDoms
            THEN /\ loopB1' = loopIDoms[loopB1]
                 /\ UNCHANGED <<loopPc, loopNbr, loopNewIdom, loopB2>>
            ELSE /\ loopPc' = "ub"
                 /\ UNCHANGED <<loopNbr, loopNewIdom, loopB1, loopB2>>
       ELSE IF loopB2 \in DOMAIN loopIDoms
            THEN /\ loopB2' = loopIDoms[loopB2]
                 /\ UNCHANGED <<loopPc, loopNbr, loopNewIdom, loopB1>>
            ELSE /\ loopPc' = "ub"
                 /\ UNCHANGED <<loopNbr, loopNewIdom, loopB1, loopB2>>
    /\ UNCHANGED <<loopFn, loopOrder, loopReachable, loopIDoms, loopChange, loopI>>
    /\ UNCHANGED <<cfgVars, domVars, dtVars, symVars>>

\* if (IDoms[i] != new_idom) { IDoms[i] = new_idom; change = true; } i++
loopUpdate ==
    /\ loopPc = "update"
    /\ IF loopSlotChanges(loopIDoms, loopI, loopNewIdom)
       THEN /\ loopIDoms' = [loopIDoms EXCEPT ![loopI] = loopNewIdom]
            /\ loopChange' = TRUE
       ELSE UNCHANGED <<loopIDoms, loopChange>>
    /\ loopI' = loopI + 1
    /\ loopPc' = "for"
    /\ UNCHANGED <<loopFn, loopOrder, loopReachable, loopNbr, loopNewIdom,
                   loopB1, loopB2>>
    /\ UNCHANGED <<cfgVars, domVars, dtVars, symVars>>

\* the loop that populates the tree map, and the return
loopPopulate ==
    /\ loopPc = "populate"
    /\ IF loopFn = "computeDominators"
       THEN /\ domMap' = domPopulate(loopIDoms, loopOrder, 0, domMap)
            /\ domBy' = domBy \cup {"fast"}
            /\ UNCHANGED <<pdomMap, ipdomOf>>
       ELSE /\ pdomMap' = postPopulate(loopIDoms, loopOrder, 1, pdomMap)
            /\ ipdomOf' = postIPdomsByBlock(loopIDoms, loopOrder)
            /\ UNCHANGED <<domMap, domBy>>
    /\ loopPc' = "returned"
    /\ UNCHANGED <<loopFn, loopOrder, loopReachable, loopIDoms, loopChange,
                   loopI, loopNbr, loopNewIdom, loopB1, loopB2>>
    /\ UNCHANGED <<cfgVars, analyzed, edits, dtVars, symVars>>

\* the statements of the running function
LoopStep ==
    \/ loopWhile
    \/ loopFor
    \/ loopRange
    \/ loopWalk
    \/ loopUpdate
    \/ loopPopulate

NextLoop ==
    \/ BuildCFG
    \/ loopEnter
    \/ loopWhile
    \/ loopFor
    \/ loopRange
    \/ loopWalk
    \/ loopUpdate
    \/ loopPopulate

SpecLoop == Init /\ [][NextLoop]_vars

\* a function that has been entered keeps executing its statements
SpecLoopFair == Init /\ [][NextLoop]_vars /\ WF_vars(LoopStep)

\* the function is inside its while loop
InLoop == loopPc \in {"while", "for", "range", "walk", "update"}

\* one test of a walk that finds B1 # B2 lowers one of the two candidates
\* and leaves both at an index of the vector
WalkDescends ==
    (loopPc = "walk" /\ loopB1 # loopB2) =>
        /\ loopPc' = "walk"
        /\ loopB1' + loopB2' < loopB1 + loopB2
        /\ loopB1' >= 0 /\ loopB2' >= 0

\* C11: on every CFG, in computeDominators and in computePostDominators,
\* every intersect walk reaches B1 == B2 after finitely many steps (each of
\* its steps lowers B1 + B2, which stays non-negative), and the while loop
\* is left: a pass that changes no slot is made and the function goes on to
\* populate its map.
C11_LoopsTerminate ==
    /\ [][WalkDescends]_vars
    /\ InLoop ~> (loopPc = "populate" /\ ~loopChange)

\* computeDominators has left its while loop on an irreducible CFG with a
\* self-loop, over which the walk was taken
C11_Witness ==
    /\ loopPc = "populate" /\ ~loopChange
    /\ loopFn = "computeDominators"
    /\ Irreducible /\ HasEdge(succs, 2, 2)
    /\ loopIDoms = [j \in 0..2 |-> 0]

\* a step of the loop leaves every assigned slot assigned, and the update
\* of a block for which no neighbour gave a candidate leaves its slot as
\* it was
SlotsStayAssigned ==
    /\ \A j \in DOMAIN loopIDoms :
           loopIDoms[j] # -1 => loopIDoms'[j] # -1
    /\ (loopPc = "update" /\ loopNewIdom = -1) =>
           loopIDoms'[loopI] = loopIDoms[loopI]

\* C12: in both fixed-point loops, the update of a block none of whose
\* reachable predecessors (successors) has an assigned slot leaves the
\* block's slot as it was, and no step of the loop takes a slot that holds
\* a value other than -1 back to -1.
C12_AssignedSlotsStay == [][SlotsStayAssigned]_vars

\* the second pass of computeDominators over an irreducible CFG: the slot of
\* a loop block, assigned in the first pass while its other predecessor in
\* the loop had none, is evaluated again
C12_Witness ==
    /\ loopPc = "update" /\ loopFn = "computeDominators"
    /\ Irreducible
    /\ loopIDoms[loopI] # -1
    /\ loopNewIdom = loopIDoms[loopI]
    /\ ~loopChange

\* the for loop has gone through every block: a pass has ended
PassEnded ==
    \/ loopPc = "for" /\ loopI >= Len(loopOrder)
    \/ loopPc \in {"while", "populate", "returned"}

\* C13: in both fixed-point loops, whenever the intersect walk is about to
\* replace a candidate by its slot, both candidates are indices of the
\* vector (neither is -1) and the slot it reads holds a value other than
\* -1; no read outside the vector happens; and when a pass has ended every
\* assigned slot other than the root's holds an index of the reverse post
\* order smaller than its own.
C13_WalkIsMemorySafe ==
    /\ loopPc # "ub"
    /\ loopPc = "walk" =>
           /\ loopB1 \in 0..(Len(loopOrder) - 1)
           /\ loopB2 \in 0..(Len(loopOrder) - 1)
           /\ loopB1 > loopB2 => loopIDoms[loopB1] # -1
           /\ loopB2 > loopB1 => loopIDoms[loopB2] # -1
    /\ PassEnded =>
           \A j \in DOMAIN loopIDoms :
               (j # loopRoot(loopFn, loopOrder) /\ loopIDoms[j] # -1) =>
                   loopIDoms[j] \in 0..(j - 1)

\* a walk of computeDominators over an irreducible CFG: in the second pass
\* the block at index 1 meets its predecessor at index 2, the other block
\* of the loop, and the walk is about to replace B2 by its assigned slot
C13_Witness ==
    /\ loopPc = "walk" /\ loopFn = "computeDominators"
    /\ Irreducible
    /\ loopI = 1
    /\ loopB1 = 0 /\ loopB2 = 2
    /\ loopIDoms[loopB2] \in 0..(loopB2 - 1)

=============================================================================
